---- MODULE Spec2Model ----
(* A model of the gago orchestrator (src/ga.go): Topology.Validate,        *)
(* GA.Validate, GA.findBest, GA.Initialize and GA.Enhance, with one        *)
(* goroutine per population synchronised by a sync.WaitGroup.              *)
EXTENDS Integers, Sequences, FiniteSets, TLC

(* ------------------------------ bounds -------------------------------- *)
MaxPops == 2          \* largest NPopulations tried
MaxSpecies == 1       \* largest NSpecies tried
MaxIndis == 2         \* largest NIndividuals tried
MaxSize == 4          \* largest NPopulations * NIndividuals tried
MaxFreq == 2          \* largest MigFrequency tried
MaxGene == 1          \* genomes are the integers 0..MaxGene
MaxGenerations == 2   \* Enhance is not called once Generations reaches this
MaxElapsed == 1       \* time.Since(start) is drawn from 1..MaxElapsed
MaxLogTasks == 1      \* pending logging goroutines counted per population

(* ------------------------------ state --------------------------------- *)
VARIABLES
    MakeGenome,     \* GA.MakeGenome is non-nil
    Topology,       \* GA.Topology
    Model,          \* GA.Model is non-nil
    ModelValid,     \* GA.Model.Validate() returns nil
    Migrator,       \* GA.Migrator is non-nil
    MigFrequency,   \* GA.MigFrequency
    Logger,         \* GA.Logger is non-nil
    Collaborators,  \* the user's genome and model: "general" (genomes held by
                    \* value), "aliased" (the same, genomes held by reference)
                    \* or "counter" (fitness = genome value, the model lowers
                    \* every genome by 1)
    Populations,    \* GA.Populations
    Best,           \* GA.Best
    bestGenome,     \* what the genome that GA.Best holds evaluates on now
    Age,            \* GA.Age
    Generations,    \* GA.Generations
    rng,            \* GA.rng
    pc,             \* where the caller's goroutine is
    i,              \* the index of the spawning loop
    wg,             \* the counter of the sync.WaitGroup
    wpc,            \* where the goroutine of each population is
    logTasks,       \* logging goroutines started and not yet run
    err,            \* what GA.Validate returned
    topoErr,        \* what Topology.Validate returned inside GA.Validate
    modelErr,       \* what Model.Validate returned inside GA.Validate
    returned,       \* the last operation that returned
    entryBest,      \* GA.Best when the running call was entered
    entryPops,      \* with the "counter" collaborators, GA.Populations when the
                    \* running Enhance was entered
    migrated        \* calls of Migrator.Apply made by the running Enhance

config == <<MakeGenome, Topology, Model, ModelValid, Migrator, MigFrequency, Logger,
            Collaborators>>
validation == <<err, topoErr, modelErr>>
vars == <<MakeGenome, Topology, Model, ModelValid, Migrator, MigFrequency, Logger,
          Collaborators, Populations, Best, bestGenome, Age, Generations, rng, pc, i,
          wg, wpc, logTasks, err, topoErr, modelErr, returned, entryBest, entryPops,
          migrated>>

Pops == 1..MaxPops
NPopulations == Topology.NPopulations
NSpecies == Topology.NSpecies
NIndividuals == Topology.NIndividuals

(* ------------------------- collaborators ------------------------------ *)
Genomes == 0..MaxGene

\* The genomes the "counter" factory makes.
CounterGenomes == 1..(MaxGene + 1)

\* What MakeGenome can return.
FactoryGenomes == IF Collaborators = "counter" THEN CounterGenomes ELSE Genomes

\* Genome.Evaluate of the user's genome: a fitness that is not the genome
\* value, with ties between different genomes; the genome value itself for
\* the "counter" genome.
Evaluate(g) == IF Collaborators = "counter" THEN g ELSE (g - 1) * (g - 1)

MaxFitness == (MaxGene + 1) * (MaxGene + 1)
Inf == MaxFitness + 1

\* The fitness an individual holds before it has been evaluated: the
\* zero-like default or the "infinitely bad" sentinel.
UnevaluatedFitness == {0, Inf}

\* MakeIndividual(genome): an individual that has not been evaluated. Shared
\* tells that the genome it refers to is also the one GA.Best refers to.
MakeIndividual(g, f) == [Genome |-> g, Fitness |-> f, Shared |-> FALSE]

\* The zero value of Population, as allocated by make([]Population, n).
ZeroPopulation == [ID |-> 0, Individuals |-> <<>>, Generations |-> 0, Age |-> 0]

\* The zero value of Individual (GA.Best before the first Initialize).
ZeroIndividual == [Genome |-> 0, Fitness |-> 0, Shared |-> FALSE]

\* makePopulation(NIndividuals, MakeGenome, j): every population that the
\* genome factory can produce, none of its individuals evaluated.
makePopulation(n, j) ==
    { [ID |-> j, Individuals |-> indis, Generations |-> 0, Age |-> 0] :
        indis \in [1..n -> {MakeIndividual(g, f) : g \in FactoryGenomes,
                                                    f \in UnevaluatedFitness}] }

\* Individuals.Evaluate(): every individual's fitness is recomputed.
EvaluateAll(indis) ==
    [k \in 1..Len(indis) |-> [indis[k] EXCEPT !.Fitness = Evaluate(indis[k].Genome)]]

IsSorted(indis) ==
    \A k \in 1..(Len(indis) - 1) : indis[k].Fitness <= indis[k + 1].Fitness

\* Individuals.Sort(): ascending fitness; the order of ties is not fixed
\* (sort.Sort is not stable).
Sort(indis) ==
    { t \in { [k \in 1..Len(indis) |-> indis[p[k]]] : p \in Permutations(1..Len(indis)) } :
        IsSorted(t) }

(* --------------------------- Topology --------------------------------- *)
ErrNPopulations == "'NPopulations' should be higher or equal to 1"
ErrNSpecies == "'NSpecies' should be higher or equal to 1 if provided"
ErrNIndividuals == "'NIndividuals' should be higher or equal to 1"
ErrGenomeMaker == "'GenomeMaker' cannot be nil"
ErrModelNil == "'Model' cannot be nil"
ErrModelInvalid == "model validation failed"
ErrMigFrequency == "'MigFrequency' should be strictly higher than 0"
Nil == "nil"
NotCalled == "not called"

\* Topology.Validate that also rejects NSpecies = 0.
TopologyValidateNoZeroSpecies(topo) ==
    IF topo.NPopulations < 1 THEN ErrNPopulations
    ELSE IF topo.NSpecies < 1 THEN ErrNSpecies
    ELSE IF topo.NIndividuals < 1 THEN ErrNIndividuals
    ELSE Nil

TopologyValidate(topo) ==
    IF topo.NPopulations < 1 THEN ErrNPopulations
    ELSE IF topo.NSpecies < 0 THEN ErrNSpecies
    ELSE IF topo.NIndividuals < 1 THEN ErrNIndividuals
    ELSE Nil

(* ---------------------------- GA.Validate ----------------------------- *)
\* GA.Validate without the check of the migration frequency.
GAValidateNoFrequency ==
    IF ~MakeGenome THEN ErrGenomeMaker
    ELSE IF TopologyValidate(Topology) # Nil THEN TopologyValidate(Topology)
    ELSE IF ~Model THEN ErrModelNil
    ELSE IF ~ModelValid THEN ErrModelInvalid
    ELSE Nil

\* GA.Validate that checks the model before the topology.
GAValidateModelFirst ==
    IF ~MakeGenome THEN ErrGenomeMaker
    ELSE IF ~Model THEN ErrModelNil
    ELSE IF ~ModelValid THEN ErrModelInvalid
    ELSE IF TopologyValidate(Topology) # Nil THEN TopologyValidate(Topology)
    ELSE IF Migrator /\ MigFrequency < 1 THEN ErrMigFrequency
    ELSE Nil

\* The value GA.Validate returns.
GAValidate ==
    IF ~MakeGenome THEN ErrGenomeMaker
    ELSE IF TopologyValidate(Topology) # Nil THEN TopologyValidate(Topology)
    ELSE IF ~Model THEN ErrModelNil
    ELSE IF ~ModelValid THEN ErrModelInvalid
    ELSE IF Migrator /\ MigFrequency < 1 THEN ErrMigFrequency
    ELSE Nil

\* Whether GA.Validate gets as far as calling Topology.Validate.
CallsTopologyValidate == MakeGenome

\* Whether GA.Validate gets as far as calling Model.Validate.
CallsModelValidate ==
    MakeGenome /\ TopologyValidate(Topology) = Nil /\ Model

ModelValidate == IF ModelValid THEN Nil ELSE ErrModelInvalid

(* ---------------------------- GA.findBest ----------------------------- *)
\* The comparison of findBest the wrong way round.
isBetterReversed(best, current) == best.Fitness > current.Fitness

\* The comparison of findBest: the candidate replaces the current best.
isBetter(best, current) == best.Fitness < current.Fitness

RECURSIVE findBestFrom(_, _, _)
findBestFrom(current, pops, k) ==
    IF k > Len(pops) THEN current
    ELSE LET best == pops[k].Individuals[1]
         IN  findBestFrom(IF isBetter(best, current) THEN best ELSE current, pops, k + 1)

findBest(current, pops) == findBestFrom(current, pops, 1)

\* The population whose first individual findBest assigns to GA.Best last,
\* or 0 when it assigns none.
RECURSIVE findBestIndexFrom(_, _, _, _)
findBestIndexFrom(current, pops, k, found) ==
    IF k > Len(pops) THEN found
    ELSE LET best == pops[k].Individuals[1]
         IN  IF isBetter(best, current)
             THEN findBestIndexFrom(best, pops, k + 1, k)
             ELSE findBestIndexFrom(current, pops, k + 1, found)

findBestIndex(current, pops) == findBestIndexFrom(current, pops, 1, 0)

\* Line 87 with genomes held by reference: ga.Best = best copies the
\* Individual, so GA.Best and the first individual of population k refer to
\* the same genome from then on, and no other individual does.
Share(pops, k) ==
    [j \in 1..Len(pops) |->
        [pops[j] EXCEPT !.Individuals =
            [m \in 1..Len(pops[j].Individuals) |->
                [pops[j].Individuals[m] EXCEPT !.Shared = (j = k /\ m = 1)]]]]

\* GA.Best and GA.Populations after findBest.
BestAfter(current, pops) ==
    IF Collaborators = "aliased" /\ findBestIndex(current, pops) > 0
    THEN [findBest(current, pops) EXCEPT !.Shared = TRUE]
    ELSE findBest(current, pops)

PopulationsAfter(current, pops) ==
    IF Collaborators = "aliased" /\ findBestIndex(current, pops) > 0
    THEN Share(pops, findBestIndex(current, pops))
    ELSE pops

(* ------------------------ Model and Migrator -------------------------- *)
\* Model.Apply on a population or a species: genomes are changed in place
\* (the cached fitness goes stale); the collection keeps its size. The
\* "counter" model lowers every genome by 1.
ModelApply(indis) ==
    IF Collaborators = "counter"
    THEN { [k \in 1..Len(indis) |-> [indis[k] EXCEPT !.Genome = indis[k].Genome - 1]] }
    ELSE { [k \in 1..Len(indis) |-> [indis[k] EXCEPT !.Genome = genomes[k]]] :
             genomes \in [1..Len(indis) -> Genomes] }

\* Population.speciate(n): the partitions of the individuals into n species,
\* each given as the species number of every position.
speciate(indis, n) == [1..Len(indis) -> 1..n]

RECURSIVE SelectSeq2(_, _, _, _)
SelectSeq2(indis, part, s, k) ==
    IF k > Len(indis) THEN <<>>
    ELSE IF part[k] = s THEN <<indis[k]>> \o SelectSeq2(indis, part, s, k + 1)
    ELSE SelectSeq2(indis, part, s, k + 1)

\* Species.merge() after Model.Apply on each species from s on: the species
\* are concatenated in order.
RECURSIVE merge(_, _, _, _)
merge(indis, part, s, n) ==
    IF s > n THEN {<<>>}
    ELSE { x \o y : x \in ModelApply(SelectSeq2(indis, part, s, 1)),
                    y \in merge(indis, part, s + 1, n) }

\* The worker keeps the first species instead of the merge of all of them.
EvolveFirstSpeciesOnly(indis) ==
    IF NSpecies > 0
    THEN UNION { ModelApply(SelectSeq2(indis, part, 1, 1)) : part \in speciate(indis, NSpecies) }
    ELSE ModelApply(indis)

\* What one Enhance worker can leave in its population before evaluating.
Evolve(indis) ==
    IF NSpecies > 0
    THEN UNION { merge(indis, part, 1, NSpecies) : part \in speciate(indis, NSpecies) }
    ELSE ModelApply(indis)

\* Migrator.Apply: two populations exchange one individual each, or nothing
\* moves.
MigratorApply(pops) ==
    {pops} \cup
    { [pops EXCEPT ![a].Individuals[p] = pops[b].Individuals[q],
                   ![b].Individuals[q] = pops[a].Individuals[p]] :
        <<a, b, p, q>> \in { x \in (1..Len(pops)) \X (1..Len(pops)) \X (1..MaxIndis) \X (1..MaxIndis) :
                               /\ x[1] < x[2]
                               /\ x[3] <= Len(pops[x[1]].Individuals)
                               /\ x[4] <= Len(pops[x[2]].Individuals) } }

\* The migration gate without the test of the frequency.
MigrationGateEveryGeneration == NPopulations > 1 /\ Migrator

\* Line 130: the condition under which Enhance migrates.
MigrationGate == NPopulations > 1 /\ Migrator /\ Generations % MigFrequency = 0

\* Line 130: the modulo is reached with a zero MigFrequency.
DividesByZero == NPopulations > 1 /\ Migrator /\ MigFrequency = 0

\* time.Since(start)
Durations == 1..MaxElapsed

(* ------------------------------- Init --------------------------------- *)
\* The fields generated at runtime of a GA value that has not run yet.
RuntimeInit ==
    /\ Populations = <<>>
    /\ Best = ZeroIndividual
    /\ bestGenome = 0
    /\ Age = 0
    /\ Generations = 0
    /\ rng = "nil"
    /\ pc = "start"
    /\ i = 0
    /\ wg = 0
    /\ wpc = [j \in Pops |-> "none"]
    /\ logTasks = [j \in Pops |-> 0]
    /\ err = NotCalled
    /\ topoErr = NotCalled
    /\ modelErr = NotCalled
    /\ returned = "none"
    /\ entryBest = ZeroIndividual
    /\ entryPops = <<>>
    /\ migrated = 0

\* Every configuration within the bounds, with the "general" collaborators.
Init ==
    /\ MakeGenome \in BOOLEAN
    /\ Topology \in [NPopulations : 0..MaxPops, NSpecies : (-1)..MaxSpecies,
                     NIndividuals : 0..MaxIndis]
    /\ Topology.NPopulations * Topology.NIndividuals <= MaxSize
    /\ Model \in BOOLEAN
    /\ ModelValid \in BOOLEAN
    /\ Migrator \in BOOLEAN
    /\ MigFrequency \in 0..MaxFreq
    /\ Logger \in BOOLEAN
    /\ Collaborators = "general"
    /\ RuntimeInit

\* The topologies GA.Validate accepts, with between lo and hi species.
ValidTopologies(lo, hi) ==
    { t \in [NPopulations : 1..MaxPops, NSpecies : lo..hi, NIndividuals : 1..MaxIndis] :
        t.NPopulations * t.NIndividuals <= MaxSize }

\* The configurations GA.Validate accepts that speciate, with one species
\* more than Init allows, so that the partitions are not all trivial.
InitSpeciation ==
    /\ MakeGenome = TRUE
    /\ Topology \in ValidTopologies(1, MaxSpecies + 1)
    /\ Model = TRUE
    /\ ModelValid = TRUE
    /\ Migrator \in BOOLEAN
    /\ MigFrequency = 1
    /\ Logger \in BOOLEAN
    /\ Collaborators = "general"
    /\ RuntimeInit

\* The scenario of the decrementing model: no speciation, no migrator, the
\* "counter" genome and model.
InitDec ==
    /\ MakeGenome = TRUE
    /\ Topology \in ValidTopologies(0, 0)
    /\ Model = TRUE
    /\ ModelValid = TRUE
    /\ Migrator = FALSE
    /\ MigFrequency = 1
    /\ Logger \in BOOLEAN
    /\ Collaborators = "counter"
    /\ RuntimeInit

\* The configurations GA.Validate accepts whose genomes are held by
\* reference (a pointer or a slice behind the Genome interface).
InitRef ==
    /\ MakeGenome = TRUE
    /\ Topology \in ValidTopologies(0, MaxSpecies)
    /\ Model = TRUE
    /\ ModelValid = TRUE
    /\ Migrator \in BOOLEAN
    /\ MigFrequency = 1
    /\ Logger \in BOOLEAN
    /\ Collaborators = "aliased"
    /\ RuntimeInit

\* The configurations GA.Validate accepts that have a logger, for the runs
\* under fair scheduling.
InitFair ==
    /\ MakeGenome = TRUE
    /\ Topology \in ValidTopologies(0, MaxSpecies)
    /\ Model = TRUE
    /\ ModelValid = TRUE
    /\ Migrator \in BOOLEAN
    /\ MigFrequency = 1
    /\ Logger = TRUE
    /\ Collaborators = "general"
    /\ RuntimeInit

(* ---------------------------- GA.Validate ----------------------------- *)
\* The caller validates the GA before running it.
Validate ==
    /\ pc = "start"
    /\ err' = GAValidate
    /\ topoErr' = IF CallsTopologyValidate THEN TopologyValidate(Topology) ELSE NotCalled
    /\ modelErr' = IF CallsModelValidate THEN ModelValidate ELSE NotCalled
    /\ pc' = IF GAValidate = Nil THEN "idle" ELSE "invalid"
    /\ returned' = "Validate"
    /\ UNCHANGED <<config, bestGenome, entryPops, Populations, Best, Age, Generations, rng, i, wg, wpc,
                   logTasks, entryBest, migrated>>

(* --------------------------- GA.Initialize ---------------------------- *)
\* Lines 96-98: the populations are allocated and the random source made.
\* The logging goroutines not yet run keep the populations they were
\* started on, which nothing writes any more: they are no longer counted.
InitializeBegin ==
    /\ pc = "idle"
    /\ Populations' = [j \in 1..NPopulations |-> ZeroPopulation]
    /\ rng' = "seeded"
    /\ pc' = "Initialize"
    /\ i' = 1
    /\ wg' = 0
    /\ logTasks' = [j \in Pops |-> 0]
    /\ entryBest' = Best
    /\ migrated' = 0
    /\ UNCHANGED <<config, bestGenome, entryPops, validation, Best, Age, Generations, wpc, returned>>

\* Lines 99-101: wg.Add(1) and the goroutine of population i is started.
InitializeSpawn ==
    /\ pc = "Initialize"
    /\ i <= Len(Populations)
    /\ wg' = wg + 1
    /\ wpc' = [wpc EXCEPT ![i] = "make"]
    /\ i' = i + 1
    /\ UNCHANGED <<config, bestGenome, entryPops, validation, Populations, Best, Age, Generations, rng, pc,
                   logTasks, returned, entryBest, migrated>>

\* The worker generating NPopulations individuals instead of NIndividuals.
WorkerMakeWrongSize(j) ==
    /\ wpc[j] = "make"
    /\ \E pop \in makePopulation(NPopulations, j - 1) :
          Populations' = [Populations EXCEPT ![j] = pop]
    /\ wpc' = [wpc EXCEPT ![j] = "evaluate"]
    /\ UNCHANGED <<config, bestGenome, entryPops, validation, Best, Age, Generations, rng, pc, i, wg,
                   logTasks, returned, entryBest, migrated>>

\* The worker handing ga.rng to the genome factory.
WorkerMakeSharedRng(j) ==
    /\ wpc[j] = "make"
    /\ \E pop \in makePopulation(NIndividuals, j - 1) :
          Populations' = [Populations EXCEPT ![j] = pop]
    /\ rng' = "used"
    /\ wpc' = [wpc EXCEPT ![j] = "evaluate"]
    /\ UNCHANGED <<config, bestGenome, entryPops, validation, Best, Age, Generations, pc, i, wg,
                   logTasks, returned, entryBest, migrated>>

\* Line 104: the worker generates its population.
WorkerMake(j) ==
    /\ wpc[j] = "make"
    /\ \E pop \in makePopulation(NIndividuals, j - 1) :
          Populations' = [Populations EXCEPT ![j] = pop]
    /\ wpc' = [wpc EXCEPT ![j] = "evaluate"]
    /\ UNCHANGED <<config, bestGenome, entryPops, validation, Best, Age, Generations, rng, pc, i, wg,
                   logTasks, returned, entryBest, migrated>>

\* The worker going on to sort without evaluating.
WorkerEvaluateSkipped(j) ==
    /\ wpc[j] = "evaluate"
    /\ wpc' = [wpc EXCEPT ![j] = "sort"]
    /\ UNCHANGED <<config, bestGenome, entryPops, validation, Populations, Best, Age, Generations, rng, pc, i,
                   wg, logTasks, returned, entryBest, migrated>>

\* The worker evaluating the first population whatever its own index.
WorkerEvaluateFirstPopulation(j) ==
    /\ wpc[j] = "evaluate"
    /\ Populations' = [Populations EXCEPT
                         ![1].Individuals = EvaluateAll(Populations[1].Individuals)]
    /\ wpc' = [wpc EXCEPT ![j] = "sort"]
    /\ UNCHANGED <<config, bestGenome, entryPops, validation, Best, Age, Generations, rng, pc, i, wg,
                   logTasks, returned, entryBest, migrated>>

\* Lines 106 and 153: the worker evaluates its individuals.
WorkerEvaluate(j) ==
    /\ wpc[j] = "evaluate"
    /\ Populations' = [Populations EXCEPT
                         ![j].Individuals = EvaluateAll(Populations[j].Individuals)]
    /\ wpc' = [wpc EXCEPT ![j] = "sort"]
    /\ UNCHANGED <<config, bestGenome, entryPops, validation, Best, Age, Generations, rng, pc, i, wg,
                   logTasks, returned, entryBest, migrated>>

\* The worker going on without sorting.
WorkerSortSkipped(j) ==
    /\ wpc[j] = "sort"
    /\ wpc' = [wpc EXCEPT ![j] = IF pc = "Initialize" THEN "log" ELSE "book"]
    /\ UNCHANGED <<config, bestGenome, entryPops, validation, Populations, Best, Age, Generations, rng, pc, i,
                   wg, logTasks, returned, entryBest, migrated>>

\* Lines 108 and 154: the worker sorts its individuals.
WorkerSort(j) ==
    /\ wpc[j] = "sort"
    /\ \E sorted \in Sort(Populations[j].Individuals) :
          Populations' = [Populations EXCEPT ![j].Individuals = sorted]
    /\ wpc' = [wpc EXCEPT ![j] = IF pc = "Initialize" THEN "log" ELSE "book"]
    /\ UNCHANGED <<config, bestGenome, entryPops, validation, Best, Age, Generations, rng, pc, i, wg,
                   logTasks, returned, entryBest, migrated>>

\* The worker ends without the deferred wg.Done().
WorkerDoneNoSignal(j) ==
    /\ wpc[j] = "log"
    /\ logTasks' = IF Logger /\ logTasks[j] < MaxLogTasks
                   THEN [logTasks EXCEPT ![j] = logTasks[j] + 1]
                   ELSE logTasks
    /\ wpc' = [wpc EXCEPT ![j] = "none"]
    /\ UNCHANGED <<config, bestGenome, entryPops, validation, Populations, Best, Age, Generations, rng, pc, i,
                   wg, returned, entryBest, migrated>>

\* Lines 110-112 and 158-160, then the deferred wg.Done(): the logging
\* goroutine is started if there is a logger, and the worker ends.
WorkerDone(j) ==
    /\ wpc[j] = "log"
    /\ logTasks' = IF Logger /\ logTasks[j] < MaxLogTasks
                   THEN [logTasks EXCEPT ![j] = logTasks[j] + 1]
                   ELSE logTasks
    /\ wg' = wg - 1
    /\ wpc' = [wpc EXCEPT ![j] = "none"]
    /\ UNCHANGED <<config, bestGenome, entryPops, validation, Populations, Best, Age, Generations, rng, pc, i,
                   returned, entryBest, migrated>>

\* Population.Log in its own goroutine: it reads the individuals of the
\* population it was started on, which are those of Populations[j], and ends.
LogRun(j) ==
    /\ logTasks[j] > 0
    /\ logTasks' = [logTasks EXCEPT ![j] = logTasks[j] - 1]
    /\ UNCHANGED <<config, bestGenome, entryPops, validation, Populations, Best, Age, Generations, rng, pc, i,
                   wg, wpc, returned, entryBest, migrated>>

\* Lines 115-118: wg.Wait() returns, the dummy best is installed and the
\* populations are scanned for the best individual.
InitializeEnd ==
    /\ pc = "Initialize"
    /\ i > Len(Populations)
    /\ wg = 0
    /\ \E g \in FactoryGenomes, f \in UnevaluatedFitness :
          /\ Best' = BestAfter(MakeIndividual(g, f), Populations)
          /\ Populations' = PopulationsAfter(MakeIndividual(g, f), Populations)
    /\ bestGenome' = Best'.Genome
    /\ pc' = "idle"
    /\ returned' = "Initialize"
    /\ UNCHANGED <<config, entryPops, validation, Age, Generations, rng, i, wg, wpc,
                   logTasks, entryBest, migrated>>

(* ---------------------------- GA.Enhance ------------------------------ *)
\* Enhance starting the first worker before the migration gate.
EnhanceBeginWorkerFirst ==
    /\ pc = "idle"
    /\ returned \in {"Initialize", "Enhance"}
    /\ Generations < MaxGenerations
    /\ Generations' = Generations + 1
    /\ pc' = "Migrate"
    /\ wg' = wg + 1
    /\ wpc' = [wpc EXCEPT ![1] = "evolve"]
    /\ entryBest' = Best
    /\ entryPops' = IF Collaborators = "counter" THEN Populations ELSE entryPops
    /\ migrated' = 0
    /\ UNCHANGED <<config, bestGenome, validation, Populations, Best, Age, rng, i, logTasks, returned>>

\* Lines 125-126: the generation counter is incremented.
EnhanceBegin ==
    /\ pc = "idle"
    /\ returned \in {"Initialize", "Enhance"}
    /\ Generations < MaxGenerations
    /\ Generations' = Generations + 1
    /\ pc' = "Migrate"
    /\ entryBest' = Best
    /\ entryPops' = IF Collaborators = "counter" THEN Populations ELSE entryPops
    /\ migrated' = 0
    /\ UNCHANGED <<config, bestGenome, validation, Populations, Best, Age, rng, i, wg, wpc,
                   logTasks, returned>>

\* Lines 130-132: the migration gate. A zero MigFrequency reached by the
\* modulo is an integer division by zero. The Migrator draws from ga.rng.
EnhanceMigrate ==
    /\ pc = "Migrate"
    /\ IF DividesByZero
       THEN /\ pc' = "panic"
            /\ UNCHANGED <<Populations, rng, migrated, i>>
       ELSE /\ IF MigrationGate
               THEN /\ Populations' \in MigratorApply(Populations)
                    /\ rng' = "used"
                    /\ migrated' = migrated + 1
               ELSE UNCHANGED <<Populations, rng, migrated>>
            /\ pc' = "Enhance"
            /\ i' = 1
    /\ UNCHANGED <<config, bestGenome, entryPops, validation, Best, Age, Generations, wg, wpc, logTasks,
                   returned, entryBest>>

\* Lines 135-137: wg.Add(1) and the goroutine of population i is started.
EnhanceSpawn ==
    /\ pc = "Enhance"
    /\ i <= Len(Populations)
    /\ wg' = wg + 1
    /\ wpc' = [wpc EXCEPT ![i] = "evolve"]
    /\ i' = i + 1
    /\ UNCHANGED <<config, bestGenome, entryPops, validation, Populations, Best, Age, Generations, rng, pc,
                   logTasks, returned, entryBest, migrated>>

\* Lines 140-151: speciation, the model on each species and the merge, or
\* the model on the whole population. A genome changed in place is changed
\* for GA.Best too when GA.Best refers to it.
WorkerEvolve(j) ==
    /\ wpc[j] = "evolve"
    /\ \E indis \in Evolve(Populations[j].Individuals) :
          /\ Populations' = [Populations EXCEPT ![j].Individuals = indis]
          /\ bestGenome' = IF \E m \in 1..Len(indis) : indis[m].Shared
                           THEN indis[CHOOSE m \in 1..Len(indis) : indis[m].Shared].Genome
                           ELSE bestGenome
    /\ wpc' = [wpc EXCEPT ![j] = "evaluate"]
    /\ UNCHANGED <<config, entryPops, validation, Best, Age, Generations, rng, pc, i, wg,
                   logTasks, returned, entryBest, migrated>>

\* Lines 155-156: the age and the generation counter of the population.
WorkerBook(j) ==
    /\ wpc[j] = "book"
    /\ \E d \in Durations :
          Populations' = [Populations EXCEPT ![j].Age = Populations[j].Age + d,
                                             ![j].Generations = Populations[j].Generations + 1]
    /\ wpc' = [wpc EXCEPT ![j] = "log"]
    /\ UNCHANGED <<config, bestGenome, entryPops, validation, Best, Age, Generations, rng, pc, i, wg,
                   logTasks, returned, entryBest, migrated>>

\* Enhance looking for the best individual without wg.Wait().
EnhanceEndNoWait ==
    /\ pc = "Enhance"
    /\ i > Len(Populations)
    /\ Best' = BestAfter(Best, Populations)
    /\ Populations' = PopulationsAfter(Best, Populations)
    /\ bestGenome' = IF findBestIndex(Best, Populations) > 0 THEN Best'.Genome ELSE bestGenome
    /\ \E d \in Durations : Age' = Age + d
    /\ pc' = "idle"
    /\ returned' = "Enhance"
    /\ UNCHANGED <<config, entryPops, validation, Generations, rng, i, wg, wpc,
                   logTasks, entryBest, migrated>>

\* Lines 163-166: wg.Wait() returns, the best individual is looked for and
\* the age of the GA updated.
EnhanceEnd ==
    /\ pc = "Enhance"
    /\ i > Len(Populations)
    /\ wg = 0
    /\ Best' = BestAfter(Best, Populations)
    /\ Populations' = PopulationsAfter(Best, Populations)
    /\ bestGenome' = IF findBestIndex(Best, Populations) > 0 THEN Best'.Genome ELSE bestGenome
    /\ \E d \in Durations : Age' = Age + d
    /\ pc' = "idle"
    /\ returned' = "Enhance"
    /\ UNCHANGED <<config, entryPops, validation, Generations, rng, i, wg, wpc,
                   logTasks, entryBest, migrated>>

Next ==
    \/ Validate
    \/ InitializeBegin
    \/ InitializeSpawn
    \/ InitializeEnd
    \/ EnhanceBegin
    \/ EnhanceMigrate
    \/ EnhanceSpawn
    \/ EnhanceEnd
    \/ \E j \in Pops : WorkerMake(j)
    \/ \E j \in Pops : WorkerEvolve(j)
    \/ \E j \in Pops : WorkerEvaluate(j)
    \/ \E j \in Pops : WorkerSort(j)
    \/ \E j \in Pops : WorkerBook(j)
    \/ \E j \in Pops : WorkerDone(j)
    \/ \E j \in Pops : LogRun(j)

Spec == Init /\ [][Next]_vars

SpecSpeciation == InitSpeciation /\ [][Next]_vars

SpecDec == InitDec /\ [][Next]_vars

SpecRef == InitRef /\ [][Next]_vars

\* The Go scheduler runs every runnable goroutine eventually, and the
\* collaborator calls terminate: a worker that can take its next step takes
\* it, and so does the caller's goroutine inside Initialize and Enhance.
\* Nothing makes the caller start a call, and nothing is asked of the
\* logging goroutines.
Fairness ==
    /\ WF_vars(InitializeSpawn)
    /\ WF_vars(InitializeEnd)
    /\ WF_vars(EnhanceMigrate)
    /\ WF_vars(EnhanceSpawn)
    /\ WF_vars(EnhanceEnd)
    /\ \A j \in Pops :
          /\ WF_vars(WorkerMake(j))
          /\ WF_vars(WorkerEvolve(j))
          /\ WF_vars(WorkerEvaluate(j))
          /\ WF_vars(WorkerSort(j))
          /\ WF_vars(WorkerBook(j))
          /\ WF_vars(WorkerDone(j))

SpecFair == InitFair /\ [][Next]_vars /\ Fairness

(* ------------------------------ claims -------------------------------- *)
InEnhance == pc \in {"Migrate", "Enhance", "panic"}
EnhanceReturned == pc = "idle" /\ returned = "Enhance"
InitializeReturned == pc = "idle" /\ returned = "Initialize"
AllIndividuals ==
    { Populations[x[1]].Individuals[x[2]] :
        x \in { y \in (1..Len(Populations)) \X (1..MaxSize) :
                  y[2] <= Len(Populations[y[1]].Individuals) } }

\* C1: during and at the return of every Enhance call Best.Fitness is at
\* most what it was when the call was entered, and Best differs from the
\* Best at entry only if its fitness is strictly lower.
BestNeverWorsens ==
    (InEnhance \/ EnhanceReturned) =>
        /\ Best.Fitness <= entryBest.Fitness
        /\ Best # entryBest => Best.Fitness < entryBest.Fitness

\* An Enhance call has returned with a Best better than at its entry.
BestImproved == EnhanceReturned /\ Best.Fitness < entryBest.Fitness

\* C2: whenever Initialize or Enhance has returned, the individuals of
\* every population are in ascending order of fitness.
SortedOnReturn ==
    (InitializeReturned \/ EnhanceReturned) =>
        \A j \in 1..Len(Populations) : IsSorted(Populations[j].Individuals)

\* An Enhance call that migrated has returned, and a population holds two
\* individuals of different fitness.
SortedAfterMigration ==
    /\ EnhanceReturned
    /\ migrated = 1
    /\ \E j \in 1..Len(Populations) :
          /\ Len(Populations[j].Individuals) = 2
          /\ Populations[j].Individuals[1].Fitness < Populations[j].Individuals[2].Fitness

\* C3: the Enhance call that raises Generations to g applies the Migrator
\* once if NPopulations > 1, a migrator is set and g mod MigFrequency = 0,
\* and not at all otherwise; no call applies it more than once.
MigratesExactlyWhenDue ==
    /\ migrated <= 1
    /\ EnhanceReturned =>
          migrated = IF NPopulations > 1 /\ Migrator /\ Generations % MigFrequency = 0
                     THEN 1 ELSE 0

\* The second generation migrated with a frequency of two (the first did not).
MigratedOnSecondGeneration ==
    EnhanceReturned /\ migrated = 1 /\ MigFrequency = 2 /\ Generations = 2

\* C4: when Initialize has returned there are NPopulations populations of
\* NIndividuals individuals each, every one of them evaluated.
InitializeProduces ==
    InitializeReturned =>
        /\ Len(Populations) = NPopulations
        /\ \A j \in 1..Len(Populations) :
              /\ Len(Populations[j].Individuals) = NIndividuals
              /\ \A k \in 1..Len(Populations[j].Individuals) :
                    Populations[j].Individuals[k].Fitness =
                        Evaluate(Populations[j].Individuals[k].Genome)

\* Initialize has returned for two populations of two individuals.
InitializedTwoByTwo ==
    InitializeReturned /\ NPopulations = 2 /\ NIndividuals = 2 /\ Len(Populations) = 2

\* C5: when Initialize has returned, Best is the first individual of some
\* population and no individual has a lower fitness.
BestIsMinimumAfterInitialize ==
    InitializeReturned =>
        /\ \E j \in 1..Len(Populations) : Best = Populations[j].Individuals[1]
        /\ \A indi \in AllIndividuals : Best.Fitness <= indi.Fitness

\* C6: whenever Initialize or Enhance has returned, the fitness of every
\* individual is the evaluation of its genome.
EvaluatedOnReturn ==
    (InitializeReturned \/ EnhanceReturned) =>
        \A indi \in AllIndividuals : indi.Fitness = Evaluate(indi.Genome)

\* The last Enhance call tried has returned, with species, for populations
\* of two individuals.
EvaluatedAfterSpeciation ==
    EnhanceReturned /\ NSpecies > 0 /\ NIndividuals = 2 /\ Generations = MaxGenerations

\* C7: Topology.Validate returns an error exactly when NPopulations < 1 or
\* NSpecies < 0 or NIndividuals < 1.
TopologyValidateIff ==
    topoErr # NotCalled =>
        (topoErr # Nil <=> (NPopulations < 1 \/ NSpecies < 0 \/ NIndividuals < 1))

\* Topology.Validate has accepted {1, 0, 1}.
TopologyAcceptsNoSpecies ==
    /\ topoErr = Nil
    /\ Topology = [NPopulations |-> 1, NSpecies |-> 0, NIndividuals |-> 1]

TopologyInvalid == NPopulations < 1 \/ NSpecies < 0 \/ NIndividuals < 1

\* C8: GA.Validate returns the error of the first check that fails, in the
\* order genome factory, topology, model, model validation, migration
\* frequency, without making the later checks, and nil when none fails.
ValidateFailsFast ==
    err # NotCalled =>
        /\ ~MakeGenome =>
              err = ErrGenomeMaker /\ topoErr = NotCalled /\ modelErr = NotCalled
        /\ MakeGenome /\ TopologyInvalid =>
              /\ err \in {ErrNPopulations, ErrNSpecies, ErrNIndividuals}
              /\ err = topoErr
              /\ modelErr = NotCalled
        /\ MakeGenome /\ ~TopologyInvalid /\ ~Model =>
              err = ErrModelNil /\ modelErr = NotCalled
        /\ MakeGenome /\ ~TopologyInvalid /\ Model /\ ~ModelValid =>
              err = ErrModelInvalid /\ err = modelErr
        /\ (MakeGenome /\ ~TopologyInvalid /\ Model /\ ModelValid /\ Migrator
              /\ MigFrequency < 1) => err = ErrMigFrequency
        /\ err = Nil <=>
              (/\ MakeGenome /\ ~TopologyInvalid /\ Model /\ ModelValid
               /\ Migrator => MigFrequency >= 1)

\* A migrator with a zero MigFrequency has been rejected.
RejectedZeroFrequency ==
    err = ErrMigFrequency /\ Migrator /\ MigFrequency = 0

\* C9: when Initialize has returned, the state generated at runtime is that
\* of a first Initialize: no generation counted and no age accumulated.
InitializeResets ==
    InitializeReturned =>
        /\ Generations = 0
        /\ Age = 0
        /\ \A j \in 1..Len(Populations) :
              Populations[j].Generations = 0 /\ Populations[j].Age = 0

\* C10: whenever Enhance has returned, the generation counter of every
\* population equals GA.Generations.
GenerationsInLockstep ==
    EnhanceReturned =>
        \A j \in 1..Len(Populations) : Populations[j].Generations = Generations

\* Population j is sorted and evaluated, its worker is not between the
\* model and the end of its bookkeeping, and the Migrator is not about to
\* be applied.
Stable(j) ==
    /\ wpc[j] \in {"none", "log"}
    /\ ~(pc = "Migrate" /\ MigrationGate)
    /\ IsSorted(Populations[j].Individuals)
    /\ \A k \in 1..Len(Populations[j].Individuals) :
          Populations[j].Individuals[k].Fitness =
              Evaluate(Populations[j].Individuals[k].Genome)

\* C11: whenever a logging goroutine started for population j can run,
\* population j is sorted and evaluated and is being modified neither by
\* the Migrator nor by a population worker.
LogSeesStableSnapshot ==
    \A j \in 1..Len(Populations) : logTasks[j] > 0 => Stable(j)

\* C13: while Enhance is at the migration gate no population worker is
\* running, and once it starts workers in a generation that migrates, the
\* Migrator has been applied.
MigrationBeforeWorkers ==
    /\ pc = "Migrate" => (wg = 0 /\ \A j \in Pops : wpc[j] = "none")
    /\ (pc = "Enhance" /\ MigrationGate) => migrated = 1

\* A worker is about to apply the model in an Enhance call that migrated.
WorkerStartsAfterMigration ==
    pc = "Enhance" /\ migrated = 1 /\ \E j \in Pops : wpc[j] = "evolve"

\* C14: Initialize and Enhance go from the barrier to findBest and return
\* only when no population worker is still running.
BarrierBeforeFindBest ==
    [][(pc \in {"Initialize", "Enhance"} /\ pc' = "idle") =>
          (wg = 0 /\ \A j \in Pops : wpc[j] = "none")]_vars

\* Enhance is blocked in wg.Wait(): the second worker has finished and the
\* first has not.
WaitingForFirstWorker ==
    /\ pc = "Enhance"
    /\ i > Len(Populations)
    /\ Len(Populations) = 2
    /\ wpc[2] = "none"
    /\ wpc[1] = "sort"

\* C15: a step of the worker of population j leaves every other population
\* and GA.Best as they are.
WorkersOwnTheirPopulation ==
    [][\A j \in Pops :
          (wpc[j] # "none" /\ wpc'[j] # wpc[j]) =>
              /\ Best' = Best
              /\ Len(Populations') = Len(Populations)
              /\ \A k \in 1..Len(Populations) :
                    k # j => Populations'[k] = Populations[k]]_vars

\* Two workers are running at once, each in the middle of its own work.
TwoWorkersRunning ==
    pc = "Enhance" /\ wpc[1] = "evaluate" /\ wpc[2] = "book"

\* C18: ga.rng is assigned or drawn from only by the caller's goroutine,
\* at the start of Initialize or in the migration gate, while no population
\* worker is running.
RngOnlyInOrchestrator ==
    [][rng' # rng =>
          /\ pc \in {"idle", "Migrate"}
          /\ \A j \in Pops : wpc[j] = "none"]_vars

\* An Enhance call whose Migrator drew from ga.rng has returned.
RngUsedByMigrator == EnhanceReturned /\ rng = "used"

\* C19: in a GA that GA.Validate has accepted, Enhance never divides by a
\* zero MigFrequency: whenever the gate gets as far as the modulo,
\* MigFrequency is at least 1.
ModuloNeverByZero ==
    /\ pc # "panic"
    /\ (pc = "Migrate" /\ NPopulations > 1 /\ Migrator) => MigFrequency >= 1

\* The gate is about to evaluate the modulo, with a frequency of 1.
ModuloEvaluated ==
    pc = "Migrate" /\ NPopulations > 1 /\ Migrator /\ MigFrequency = 1

\* C17: when NSpecies > 0, the speciate, Model.Apply, merge cycle of a worker
\* leaves its population with the same number of individuals, and every
\* individual it had is there exactly once (the individuals are told apart
\* by the fitness they carry, which the model does not touch), in an order
\* that may have changed.
SpeciationKeepsIndividuals ==
    [][\A j \in Pops :
          (wpc[j] = "evolve" /\ wpc'[j] = "evaluate" /\ NSpecies > 0) =>
              LET before == Populations[j].Individuals
                  after == Populations'[j].Individuals
              IN  /\ Len(after) = Len(before)
                  /\ \E p \in Permutations(1..Len(before)) :
                        \A k \in 1..Len(before) :
                            /\ after[k].Fitness = before[p[k]].Fitness
                            /\ after[k].Shared = before[p[k]].Shared]_vars

\* A worker has merged more than one species back into an order that is not
\* the sorted order it started from.
MergedOutOfOrder ==
    /\ pc = "Enhance"
    /\ NSpecies > 1
    /\ \E j \in 1..Len(Populations) :
          wpc[j] = "evaluate" /\ ~IsSorted(Populations[j].Individuals)

\* With the "counter" collaborators, every individual holds a fitness 1
\* below the one the individual at its place held when Enhance was entered.
EachFitnessOneLower ==
    \A j \in 1..Len(Populations) :
        \A k \in 1..Len(Populations[j].Individuals) :
            Populations[j].Individuals[k].Fitness = entryPops[j].Individuals[k].Fitness - 1

BestIsMinimum ==
    /\ \A x \in AllIndividuals : Best.Fitness <= x.Fitness
    /\ \E x \in AllIndividuals : Best.Fitness = x.Fitness

\* C12: with no speciation and a model that lowers every genome by 1
\* (fitness = genome value), when Enhance has returned every individual's
\* fitness is 1 lower than at the entry of the call, every population is in
\* the same, sorted order, and Best.Fitness is the minimum fitness over all
\* populations.
DecrementScenario ==
    (EnhanceReturned /\ Collaborators = "counter" /\ NSpecies = 0) =>
        /\ EachFitnessOneLower
        /\ \A j \in 1..Len(Populations) : IsSorted(Populations[j].Individuals)
        /\ BestIsMinimum

\* C16: GA.Best is an independent copy: once it has been taken from a
\* population's first individual, whenever the caller can read it the genome
\* it holds is still the one it was taken with, and Best.Fitness is the
\* fitness of that genome.
BestIsIndependentCopy ==
    (pc = "idle" /\ Best.Shared) =>
        /\ bestGenome = Best.Genome
        /\ Best.Fitness = Evaluate(bestGenome)

InCall == pc \in {"Initialize", "Migrate", "Enhance"}

\* C20: the wait-group counter is never negative and counts the workers
\* that have been registered and have not signalled yet; a call registers
\* NPopulations workers and returns only when all of them have signalled;
\* and under fair scheduling every call of Initialize and of Enhance
\* returns.
CallsTerminate ==
    /\ [](/\ wg >= 0
          /\ wg = Cardinality({j \in Pops : wpc[j] # "none"})
          /\ (pc \in {"Initialize", "Enhance"} =>
                 Len(Populations) = NPopulations /\ i <= NPopulations + 1))
    /\ [][(InCall /\ pc' = "idle") => (i = NPopulations + 1 /\ wg = 0)]_vars
    /\ (InCall ~> pc = "idle")

\* The caller has registered both workers and waits at the barrier for the
\* last one to signal.
LastWorkerPending ==
    /\ pc = "Initialize"
    /\ NPopulations = 2
    /\ i = NPopulations + 1
    /\ wg = 1

====
